---- MODULE Spec2Model ----
(***************************************************************************)
(* StringSimilarityMap (autogen_ext/apprentice/_string_similarity_map.py): *)
(* a Chroma collection "string-pairs" plus a side table uid_text_dict that *)
(* is pickled to uid_text_dict.pkl in the same directory.  One storage     *)
(* directory and one live store object at a time; re-initialising replaces *)
(* the object and keeps the directory.                                     *)
(***************************************************************************)
EXTENDS Integers, Sequences, FiniteSets, TLC

\* ------------------------------------------------------------- bounds
\* Largest value the id counter may reach (guard of AddPair).
MaxId == 2
\* Largest num_trials an evaluation passes to test_fast_learner.
MaxTrials == 8

\* Texts callers add: input text paired with output text.
Pairs == {<<"a", "x">>, <<"b", "y">>}
\* The query text of a search; the distances reported for it are left open.
Queries == {"a"}
\* The distances the vector backend reports and the thresholds callers pass:
\* a distance can be below, equal to and above a threshold.
Distances == {0, 1}
Thresholds == {0, 1}
\* The n_results callers pass: from 0 to more than the store can hold.
NResults == 0..(MaxId + 1)

\* ------------------------------------------------------------- state
VARIABLES
  \* the storage directory
  vec_db,              \* the Chroma collection: uid -> document (persistent)
  collExists,          \* the collection "string-pairs" exists in the client
  fileExists,          \* uid_text_dict.pkl exists
  fileDict,            \* the content of uid_text_dict.pkl: the pickled items of a dict
  \* the store object
  uid_text_dict,       \* self.uid_text_dict: uid -> <<input_text, output_text>>
  last_string_pair_id, \* self.last_string_pair_id
  \* what the caller saw of the last call
  lastOp,              \* "init", "add", "get", "reset", "save", "reset_failed", "add_failed"
  afterReset,          \* after a get: no call but get was made since a reset_db() returned
  initReset,           \* after an init: its reset argument
  outcome,             \* "ok" or the exception the call raised
  string_pairs,        \* the list get_related_string_pairs returned
  neighbours,          \* what vec_db.query returned to it: <<uid, document, distance>>
  queried,             \* the call issued vec_db.query
  requested,           \* the n_results it passed to vec_db.query
  argN,                \* its n_results argument
  argT,                \* its threshold argument
  addedUid,            \* after an add: the ids= key given to vec_db.add
  addedKey,            \* after an add: the key written in uid_text_dict
  \* history
  nAdds,               \* add_input_output_pair calls made on this store object
  loadedCount,         \* entries the object loaded when it was constructed
  retired,             \* uids of the records a reset deleted from the collection
  live,                \* pairs added since the last reset
  \* one call of Evaluator.test_fast_learner (eval_framework/eval.py)
  pc,                  \* where the call is: "idle", "loop", "responded", "graded",
                       \* "reported", "done", "failed"
  num_trials,          \* its num_trials argument
  num_successes,       \* its local num_successes
  trial,               \* the loop variable: trials completed so far
  verdicts,            \* response_is_correct of each trial graded, in order
  responses,           \* assign_task calls that returned a response
  pagesBegun,          \* page_log.begin_page calls it made
  pagesFinished,       \* page_log.finish_page calls it made
  success_rate,        \* the number in its "Success rate:  {}%" line, -1 before that
  returned,            \* the tuple it returned, <<>> before that
  raised               \* the exception that left it, "" if none

disk == <<vec_db, collExists, fileExists, fileDict>>
store == <<uid_text_dict, last_string_pair_id>>
seen == <<lastOp, afterReset, initReset, outcome, string_pairs, neighbours, queried,
          requested, argN, argT, addedUid, addedKey>>
hist == <<nAdds, loadedCount, retired, live>>
tfl == <<pc, num_trials, num_successes, trial, verdicts, responses, pagesBegun,
         pagesFinished, success_rate, returned, raised>>
vars == <<disk, store, seen, hist, tfl>>

\* ------------------------------------------------------------- helpers
EmptyMap == [k \in {} |-> <<>>]

\* len(d) of a dict.
DictLen(d) == Cardinality(DOMAIN d)

\* d[k] = v of a dict: inserts k, or overwrites the value k had.
Put(d, k, v) == [x \in (DOMAIN d) \cup {k} |-> IF x = k THEN v ELSE d[x]]

Digits == <<"0", "1", "2", "3", "4", "5", "6", "7", "8", "9">>

\* str(n) of a non-negative int: its decimal digits.
RECURSIVE Str(_)
Str(n) == IF n < 10 THEN Digits[n + 1] ELSE Str(n \div 10) \o Digits[(n % 10) + 1]

\* The counter is read and not incremented.
NextIdNoIncrement(last) == last

\* self.last_string_pair_id += 1
NextId(last) == last + 1

\* collection.add(documents=[doc], ids=[uid]): Chroma keeps the record an id
\* already has and logs "Add of existing embedding ID"; a new id is inserted.
VecAdd(coll, uid, doc) == IF uid \in DOMAIN coll THEN coll ELSE Put(coll, uid, doc)

\* What the calls that are not get_related_string_pairs leave in the caller's view.
Saw(op, reset, exc) ==
  /\ lastOp' = op
  /\ afterReset' = FALSE
  /\ initReset' = reset
  /\ outcome' = exc
  /\ string_pairs' = <<>>
  /\ neighbours' = <<>>
  /\ queried' = FALSE
  /\ requested' = 0
  /\ argN' = 0
  /\ argT' = 0

\* ------------------------------------------------------------- operations
\* pickle.dump(d, file): the items <<key, input_text, output_text>> of the dict.
PickleDump(d) == {<<k, d[k][1], d[k][2]>> : k \in DOMAIN d}

\* pickle.load(f): the dict rebuilt from the pickled items.
PickleLoad(items) ==
  [k \in {t[1] : t \in items} |->
     LET t == CHOOSE t \in items : t[1] = k IN <<t[2], t[3]>>]

\* save_string_pairs with the dict d: the file opened "wb" holds the dump of d alone.
save_string_pairs(d) ==
  /\ fileExists' = TRUE
  /\ fileDict' = PickleDump(d)

\* The body of reset_db indented under "if self.verbose": with verbose off it does nothing.
reset_db_only_when_verbose == UNCHANGED <<vec_db, collExists, uid_text_dict, fileExists, fileDict>>

\* reset_db: delete_collection, create_collection, clear the dict, save it.
reset_db ==
  /\ vec_db' = EmptyMap
  /\ collExists' = TRUE
  /\ uid_text_dict' = EmptyMap
  /\ save_string_pairs(EmptyMap)

\* The dict and the counter __init__ has before its "if reset" (lines 46-57).
LoadedDict(reset) == IF (~reset) /\ fileExists THEN PickleLoad(fileDict) ELSE EmptyMap
LoadedId(reset) == IF (~reset) /\ fileExists THEN DictLen(PickleLoad(fileDict)) ELSE 0

\* StringSimilarityMap(settings, reset, path_to_db_dir, logger) on the directory.
Initialize(reset) ==
  /\ last_string_pair_id' = LoadedId(reset)
  /\ IF reset
       THEN reset_db
       ELSE /\ uid_text_dict' = LoadedDict(reset)
            /\ vec_db' = (IF collExists THEN vec_db ELSE EmptyMap)
            /\ collExists' = TRUE
            /\ UNCHANGED <<fileExists, fileDict>>
  /\ Saw("init", reset, "ok")
  /\ addedUid' = "" /\ addedKey' = ""
  /\ nAdds' = 0
  /\ loadedCount' = DictLen(LoadedDict(reset))
  /\ IF reset
       THEN /\ retired' = retired \cup DOMAIN vec_db
            /\ live' = {}
       ELSE UNCHANGED <<retired, live>>
  /\ UNCHANGED tfl

\* add_input_output_pair ending with self.save_string_pairs(): every add persists.
AddPairAutoSave(input_text, output_text) ==
  /\ collExists
  /\ last_string_pair_id < MaxId
  /\ LET id == NextId(last_string_pair_id)
     IN /\ last_string_pair_id' = id
        /\ vec_db' = VecAdd(vec_db, Str(id), input_text)
        /\ uid_text_dict' = Put(uid_text_dict, Str(id), <<input_text, output_text>>)
        /\ addedUid' = Str(id)
        /\ addedKey' = Str(id)
        /\ save_string_pairs(Put(uid_text_dict, Str(id), <<input_text, output_text>>))
  /\ UNCHANGED collExists
  /\ Saw("add", FALSE, "ok")
  /\ nAdds' = nAdds + 1
  /\ live' = live \cup {<<input_text, output_text>>}
  /\ UNCHANGED <<loadedCount, retired>>
  /\ UNCHANGED tfl

\* add_input_output_pair(input_text, output_text)
AddPair(input_text, output_text) ==
  /\ collExists
  /\ last_string_pair_id < MaxId
  /\ LET id == NextId(last_string_pair_id)
     IN /\ last_string_pair_id' = id
        /\ vec_db' = VecAdd(vec_db, Str(id), input_text)
        /\ uid_text_dict' = Put(uid_text_dict, Str(id), <<input_text, output_text>>)
        /\ addedUid' = Str(id)
        /\ addedKey' = Str(id)
  /\ UNCHANGED <<collExists, fileExists, fileDict>>
  /\ Saw("add", FALSE, "ok")
  /\ nAdds' = nAdds + 1
  /\ live' = live \cup {<<input_text, output_text>>}
  /\ UNCHANGED <<loadedCount, retired>>
  /\ UNCHANGED tfl

\* reset_db() called by the user of the store.
Reset ==
  /\ collExists
  /\ reset_db
  /\ UNCHANGED last_string_pair_id
  /\ Saw("reset", FALSE, "ok")
  /\ addedUid' = "" /\ addedKey' = ""
  /\ retired' = retired \cup DOMAIN vec_db
  /\ live' = {}
  /\ UNCHANGED <<nAdds, loadedCount>>
  /\ UNCHANGED tfl

\* save_string_pairs() called by the user of the store.
Save ==
  /\ save_string_pairs(uid_text_dict)
  /\ UNCHANGED <<vec_db, collExists, store>>
  /\ Saw("save", FALSE, "ok")
  /\ addedUid' = "" /\ addedKey' = ""
  /\ UNCHANGED hist
  /\ UNCHANGED tfl

\* n_results is passed on as given.
ClampNone(n_results, d) == n_results

\* if n_results > len(self.uid_text_dict): n_results = len(self.uid_text_dict)
ClampResults(n_results, d) == IF n_results > DictLen(d) THEN DictLen(d) ELSE n_results

\* The comparison written <=.
WithinOrEqual(distance, threshold) == distance <= threshold

\* if distance < threshold
Within(distance, threshold) == distance < threshold

\* A list of <<uid, distance>> names each uid once.
DistinctUids(s) == \A i, j \in DOMAIN s : i # j => s[i][1] # s[j][1]

\* A list of <<uid, distance>> is in ascending order of distance.
Ascending(s) == \A i, j \in DOMAIN s : i < j => s[i][2] <= s[j][2]

\* vec_db.query(query_texts=[q], n_results=n): the results["ids"][0],
\* results["documents"][0], results["distances"][0] Chroma may return, as lists of
\* <<uid, document, distance>>.  It returns min(n, collection size) records of the
\* collection, nearest first; the distances are the embedding's and are left open.
QueryResults(coll, n) ==
  LET m == IF n > DictLen(coll) THEN DictLen(coll) ELSE n
      ranked == {s \in [1..m -> (DOMAIN coll) \X Distances] :
                   DistinctUids(s) /\ Ascending(s)}
  IN {[i \in 1..m |-> <<s[i][1], coll[s[i][1]], s[i][2]>>] : s \in ranked}

\* The loop without "assert input_text == input_text_2".
RECURSIVE CollectPairsNoAssert(_, _, _, _, _)
CollectPairsNoAssert(results, i, threshold, d, acc) ==
  IF i > Len(results)
    THEN [exc |-> "ok", pairs |-> acc]
    ELSE LET uid == results[i][1]
             input_text == results[i][2]
             distance == results[i][3]
         IN IF distance < threshold
              THEN IF uid \notin DOMAIN d
                     THEN [exc |-> "KeyError", pairs |-> <<>>]
                     ELSE CollectPairsNoAssert(results, i + 1, threshold, d,
                                               Append(acc, <<input_text, d[uid][2], distance>>))
              ELSE CollectPairsNoAssert(results, i + 1, threshold, d, acc)

\* The loop of get_related_string_pairs over results[i], i from `i` on, with the
\* list built so far: the list returned, or the exception that ends the call.
RECURSIVE CollectPairs(_, _, _, _, _)
CollectPairs(results, i, threshold, d, acc) ==
  IF i > Len(results)
    THEN [exc |-> "ok", pairs |-> acc]
    ELSE LET uid == results[i][1]
             input_text == results[i][2]
             distance == results[i][3]
         IN IF Within(distance, threshold)
              THEN IF uid \notin DOMAIN d
                     THEN [exc |-> "KeyError", pairs |-> <<>>]
                     ELSE IF input_text # d[uid][1]
                            THEN [exc |-> "AssertionError", pairs |-> <<>>]
                            ELSE CollectPairs(results, i + 1, threshold, d,
                                              Append(acc, <<input_text, d[uid][2], distance>>))
              ELSE CollectPairs(results, i + 1, threshold, d, acc)

\* get_related_string_pairs(query_text, n_results, threshold)
GetRelated(query_text, n_results, threshold) ==
  LET n == ClampResults(n_results, uid_text_dict)
  IN \* A search changes neither the directory nor the object, so a search made
     \* right after a search reaches only states the first one reaches; the model
     \* leaves the repetition out (the reachable states are the same without this).
     /\ lastOp # "get"
     /\ IF n > 0
          THEN IF collExists
                 THEN \E results \in QueryResults(vec_db, n) :
                        LET got == CollectPairs(results, 1, threshold, uid_text_dict, <<>>)
                        IN /\ neighbours' = results
                           /\ outcome' = got.exc
                           /\ string_pairs' = got.pairs
                 ELSE /\ neighbours' = <<>>
                      /\ outcome' = "BackendError"
                      /\ string_pairs' = <<>>
          ELSE /\ neighbours' = <<>>
               /\ outcome' = "ok"
               /\ string_pairs' = <<>>
     /\ queried' = (n > 0)
     /\ requested' = (IF n > 0 THEN n ELSE 0)
     /\ argN' = n_results
     /\ argT' = threshold
     /\ lastOp' = "get"
     /\ afterReset' = (lastOp = "reset" \/ (lastOp = "get" /\ afterReset))
     /\ initReset' = FALSE
     /\ addedUid' = "" /\ addedKey' = ""
     /\ UNCHANGED <<disk, store, hist, tfl>>

\* reset_db() ended by an exception of the step `step`; the steps before it are done.
\* delete_collection raises when the collection does not exist.
ResetFail(step) ==
  /\ \/ /\ step = "delete_collection"
        /\ UNCHANGED <<disk, uid_text_dict>>
        /\ UNCHANGED <<retired, live>>
     \/ /\ step = "create_collection"
        /\ collExists
        /\ vec_db' = EmptyMap
        /\ collExists' = FALSE
        /\ UNCHANGED <<uid_text_dict, fileExists, fileDict>>
        /\ retired' = retired \cup DOMAIN vec_db
        /\ live' = {}
     \/ /\ step = "save_string_pairs"
        /\ collExists
        /\ vec_db' = EmptyMap
        /\ uid_text_dict' = EmptyMap
        /\ UNCHANGED <<collExists, fileExists, fileDict>>
        /\ retired' = retired \cup DOMAIN vec_db
        /\ live' = {}
  /\ UNCHANGED last_string_pair_id
  /\ Saw("reset_failed", FALSE, step)
  /\ addedUid' = "" /\ addedKey' = ""
  /\ UNCHANGED <<nAdds, loadedCount>>
  /\ UNCHANGED tfl

\* add_input_output_pair on a store whose reset_db deleted the collection and did
\* not recreate it: the counter is incremented, then vec_db.add raises.
AddPairFail ==
  /\ ~collExists
  /\ last_string_pair_id < MaxId
  /\ last_string_pair_id' = NextId(last_string_pair_id)
  /\ UNCHANGED <<disk, uid_text_dict>>
  /\ Saw("add_failed", FALSE, "BackendError")
  /\ addedUid' = "" /\ addedKey' = ""
  /\ UNCHANGED hist
  /\ UNCHANGED tfl

ResetSteps == {"delete_collection", "create_collection", "save_string_pairs"}

\* ------------------------------------------------------------- test_fast_learner
\* The num_trials an evaluation passes; 0 is what a settings file may hold too.
Trials == 0..MaxTrials

\* round(num / den) of Python 3 for num >= 0, den > 0: the nearest integer, a tie
\* going to the even one.
Round(num, den) ==
  LET q == num \div den
      r == num % den
  IN IF 2 * r < den THEN q
     ELSE IF 2 * r > den THEN q + 1
     ELSE IF q % 2 = 0 THEN q ELSE q + 1

\* int((num_successes / num_trials) * 100): the fraction is dropped.
SuccessRateTruncated(successes, trials) == (100 * successes) \div trials

\* round((num_successes / num_trials) * 100)
SuccessRate(successes, trials) == Round(100 * successes, trials)

\* Lines 307-315: begin_page, the first add_lines, Grader(...), num_successes = 0.
TflBegin(n) ==
  /\ pc = "idle"
  /\ pc' = "loop"
  /\ num_trials' = n
  /\ num_successes' = 0
  /\ trial' = 0
  /\ pagesBegun' = pagesBegun + 1
  /\ UNCHANGED <<verdicts, responses, pagesFinished, success_rate, returned, raised>>
  /\ UNCHANGED <<disk, store, seen, hist>>

\* Lines 317-321: the loop takes its next trial, presents the task and
\* await fast_learner.assign_task returns a response.
TflAssign ==
  /\ pc = "loop" /\ trial < num_trials
  /\ pc' = "responded"
  /\ responses' = responses + 1
  /\ UNCHANGED <<num_trials, num_successes, trial, verdicts, pagesBegun, pagesFinished,
                 success_rate, returned, raised>>
  /\ UNCHANGED <<disk, store, seen, hist>>

\* Lines 322-324: await grader.is_response_correct returns its verdict.
TflGrade(response_is_correct) ==
  /\ pc = "responded"
  /\ pc' = "graded"
  /\ verdicts' = Append(verdicts, response_is_correct)
  /\ UNCHANGED <<num_trials, num_successes, trial, responses, pagesBegun, pagesFinished,
                 success_rate, returned, raised>>
  /\ UNCHANGED <<disk, store, seen, hist>>

\* Lines 325-329: the tally, and the end of the loop body.
TflTally ==
  /\ pc = "graded"
  /\ pc' = "loop"
  /\ num_successes' = (IF verdicts[Len(verdicts)] THEN num_successes + 1 ELSE num_successes)
  /\ trial' = trial + 1
  /\ UNCHANGED <<num_trials, verdicts, responses, pagesBegun, pagesFinished,
                 success_rate, returned, raised>>
  /\ UNCHANGED <<disk, store, seen, hist>>

\* Line 331: the success-rate line; the division raises when num_trials is 0.
TflReport ==
  /\ pc = "loop" /\ trial >= num_trials
  /\ IF num_trials = 0
       THEN /\ pc' = "failed"
            /\ raised' = "ZeroDivisionError"
            /\ UNCHANGED success_rate
       ELSE /\ pc' = "reported"
            /\ success_rate' = SuccessRate(num_successes, num_trials)
            /\ UNCHANGED raised
  /\ UNCHANGED <<num_trials, num_successes, trial, verdicts, responses, pagesBegun,
                 pagesFinished, returned>>
  /\ UNCHANGED <<disk, store, seen, hist>>

\* Lines 332-333: finish_page and return num_successes, num_trials.
TflFinish ==
  /\ pc = "reported"
  /\ pc' = "done"
  /\ pagesFinished' = pagesFinished + 1
  /\ returned' = <<num_successes, num_trials>>
  /\ UNCHANGED <<num_trials, num_successes, trial, verdicts, responses, pagesBegun,
                 success_rate, raised>>
  /\ UNCHANGED <<disk, store, seen, hist>>

\* The exception caught inside the loop: the trial is skipped and the loop goes on.
TflRaiseSwallowed ==
  /\ \/ pc = "loop" /\ trial < num_trials
     \/ pc = "responded"
  /\ pc' = "loop"
  /\ trial' = trial + 1
  /\ raised' = "Exception"
  /\ UNCHANGED <<num_trials, num_successes, verdicts, responses, pagesBegun, pagesFinished,
                 success_rate, returned>>
  /\ UNCHANGED <<disk, store, seen, hist>>

\* An awaited call raises (assign_task at line 321, is_response_correct at line 322):
\* test_fast_learner has no try, so the exception leaves it there.
TflRaise ==
  /\ \/ pc = "loop" /\ trial < num_trials
     \/ pc = "responded"
  /\ pc' = "failed"
  /\ raised' = "Exception"
  /\ UNCHANGED <<num_trials, num_successes, trial, verdicts, responses, pagesBegun,
                 pagesFinished, success_rate, returned>>
  /\ UNCHANGED <<disk, store, seen, hist>>

\* ------------------------------------------------------------- specification
\* The first store object constructed on a new directory.
Init ==
  /\ vec_db = EmptyMap
  /\ collExists = TRUE
  /\ uid_text_dict = EmptyMap
  /\ last_string_pair_id = 0
  /\ initReset \in BOOLEAN
  /\ fileExists = initReset
  /\ fileDict = PickleDump(EmptyMap)
  /\ lastOp = "init" /\ afterReset = FALSE /\ outcome = "ok"
  /\ string_pairs = <<>> /\ neighbours = <<>> /\ queried = FALSE
  /\ requested = 0 /\ argN = 0 /\ argT = 0
  /\ addedUid = "" /\ addedKey = ""
  /\ nAdds = 0 /\ loadedCount = 0
  /\ retired = {} /\ live = {}
  /\ pc = "idle" /\ num_trials = 0 /\ num_successes = 0 /\ trial = 0
  /\ verdicts = <<>> /\ responses = 0 /\ pagesBegun = 0 /\ pagesFinished = 0
  /\ success_rate = -1 /\ returned = <<>> /\ raised = ""

\* The calls a user of the store makes, none of them failing in the backend or on disk.
Next ==
  \/ \E reset \in BOOLEAN : Initialize(reset)
  \/ \E p \in Pairs : AddPair(p[1], p[2])
  \/ \E q \in Queries, n \in NResults, t \in Thresholds : GetRelated(q, n, t)
  \/ Reset
  \/ Save

Spec == Init /\ [][Next]_vars

\* The same calls, where a step of reset_db may raise.
NextFail ==
  \/ Next
  \/ \E step \in ResetSteps : ResetFail(step)
  \/ AddPairFail

SpecFail == Init /\ [][NextFail]_vars

\* One call of test_fast_learner, from its first line to its return or its exception.
NextEval ==
  \/ \E n \in Trials : TflBegin(n)
  \/ TflAssign
  \/ \E response_is_correct \in BOOLEAN : TflGrade(response_is_correct)
  \/ TflTally
  \/ TflReport
  \/ TflFinish
  \/ TflRaise

SpecEval == Init /\ [][NextEval]_vars

\* ------------------------------------------------------------- claims
Min(a, b) == IF a < b THEN a ELSE b

\* C1: the ids in the vector index are the keys of the side table, in every
\* state a sequence of initialize, addPair, reset, save and re-initialize reaches.
C1_IndexMatchesTable == DOMAIN vec_db = DOMAIN uid_text_dict

\* C2: a store constructed without reset right after save() has the side table and
\* the id counter the saving store had.
C2_RoundTrip ==
  [][(lastOp = "save" /\ lastOp' = "init" /\ ~initReset')
       => (uid_text_dict' = uid_text_dict /\ last_string_pair_id' = last_string_pair_id)]_vars

\* C3: addPair never assigns an id that was assigned to a pair before a reset
\* (the id of a record a reset deleted).
C3_NoIdReuse == (lastOp = "add") => (addedUid \notin retired)

\* C4: on a store constructed with nothing loaded, the k-th addPair gets id k, and
\* that id is the key of the pair in the vector index and in the side table.
C4_IdsFromOne ==
  (lastOp = "add" /\ loadedCount = 0)
    => /\ last_string_pair_id = nAdds
       /\ addedUid = Str(nAdds)
       /\ addedKey = Str(nAdds)
       /\ addedUid \in DOMAIN vec_db
       /\ addedKey \in DOMAIN uid_text_dict

\* C4 witness: the second addPair of a store constructed empty got id 2.
C4_Witness == lastOp = "add" /\ loadedCount = 0 /\ nAdds = 2 /\ last_string_pair_id = 2

\* C5: every (input, output, distance) getRelated returns is a pair some addPair
\* added since the last reset, with the output it was added with.
C5_ReturnedWereAdded ==
  (lastOp = "get")
    => \A i \in DOMAIN string_pairs : <<string_pairs[i][1], string_pairs[i][2]>> \in live

\* C5 witness: a store loaded from a saved side table returned a pair.
C5_Witness == lastOp = "get" /\ loadedCount > 0 /\ Len(string_pairs) > 0

\* C6: every entry getRelated returns has a distance strictly below the threshold.
C6_BelowThreshold ==
  (lastOp = "get") => \A i \in DOMAIN string_pairs : string_pairs[i][3] < argT

\* C6 witness: a neighbour at exactly the threshold was left out, another was returned.
C6_Witness ==
  /\ lastOp = "get"
  /\ Len(string_pairs) > 0
  /\ \E k \in DOMAIN neighbours : neighbours[k][3] = argT

\* C7: getRelated with n > 0 right after reset() returns the empty sequence.
C7_EmptyAfterReset ==
  (lastOp = "get" /\ afterReset /\ argN > 0) => (outcome = "ok" /\ string_pairs = <<>>)

\* C7 witness: the store had added pairs, was reset, and was then searched with n > 0.
C7_Witness == lastOp = "get" /\ afterReset /\ argN > 0 /\ nAdds > 0 /\ retired # {}

\* C8: with maxResults 0 or an empty side table getRelated queries nothing and
\* returns nothing; otherwise it requests min(maxResults, entries of the side table)
\* neighbours and returns no more than that.
C8_RequestsClamped ==
  (lastOp = "get")
    => /\ (argN = 0 \/ DOMAIN uid_text_dict = {})
            => (~queried /\ outcome = "ok" /\ string_pairs = <<>>)
       /\ queried => /\ requested = Min(argN, DictLen(uid_text_dict))
                     /\ Len(neighbours) <= requested
       /\ Len(string_pairs) <= Min(argN, DictLen(uid_text_dict))

\* C8 witness: a search asking for more than the side table holds was clamped and
\* returned as many entries as it requested.
C8_Witness ==
  /\ lastOp = "get" /\ queried
  /\ argN > DictLen(uid_text_dict)
  /\ requested = 2
  /\ Len(string_pairs) = requested

\* C9: a search whose backend result names an id missing from the side table fails;
\* the neighbour is not skipped, whatever its distance.
C9_MissingIdFails ==
  (lastOp = "get" /\ \E k \in DOMAIN neighbours : neighbours[k][1] \notin DOMAIN uid_text_dict)
    => outcome # "ok"

\* C10: a reset (reset(), or initialize with reset) that returns leaves the vector
\* index, the side table and its file empty, and no reset, failed or not, clears one
\* of the vector index and the side table without the other.
C10_ResetAtomic ==
  [][(lastOp' \in {"reset", "reset_failed"} \/ (lastOp' = "init" /\ initReset'))
       => /\ (outcome' = "ok")
               => /\ DOMAIN vec_db' = {}
                  /\ DOMAIN uid_text_dict' = {}
                  /\ fileExists' /\ fileDict' = {}
          /\ (DOMAIN vec_db # {} /\ DOMAIN vec_db' = {}) => DOMAIN uid_text_dict' = {}
          /\ (DOMAIN uid_text_dict # {} /\ DOMAIN uid_text_dict' = {}) => DOMAIN vec_db' = {}]_vars

C14_AddAppends ==
  [][(lastOp' = "add")
       => /\ addedKey' \notin DOMAIN uid_text_dict
          /\ addedUid' \notin DOMAIN vec_db
          /\ DictLen(uid_text_dict') = DictLen(uid_text_dict) + 1
          /\ DictLen(vec_db') = DictLen(vec_db) + 1]_vars

\* C14, the side table alone: no addPair writes a key the side table already has.
C14_NoOverwrite ==
  [][(lastOp' = "add") => addedKey' \notin DOMAIN uid_text_dict]_vars

\* Trials the grader judged correct.
Correct == Cardinality({i \in DOMAIN verdicts : verdicts[i]})

\* C12: test_fast_learner with num_trials = n >= 1 returns (s, n), s the number of
\* trials judged correct, and reports the integer nearest to 100*s/n (a tie goes to
\* the even one, as round does); correct on trials 1 and 3 of 3 gives 67 and (2, 3).
C12_Result ==
  (pc = "done" /\ num_trials >= 1)
    => /\ Len(verdicts) = num_trials
       /\ returned = <<Correct, num_trials>>
       /\ 0 <= Correct /\ Correct <= num_trials
       /\ 2 * (success_rate * num_trials - 100 * Correct) <= num_trials
       /\ 2 * (100 * Correct - success_rate * num_trials) <= num_trials
       /\ (2 * (100 * Correct - success_rate * num_trials) \in {num_trials, 0 - num_trials})
            => success_rate % 2 = 0
       /\ (verdicts = <<TRUE, FALSE, TRUE>>) => (success_rate = 67 /\ returned = <<2, 3>>)

\* C12 witness: three trials, the first and the third judged correct, have returned.
C12_Witness == pc = "done" /\ verdicts = <<TRUE, FALSE, TRUE>> /\ returned = <<2, 3>>

\* The order of one scenario: a response before its grade, a grade before its tally,
\* the report after the last trial, finish_page after the report and once, and
\* nothing of it after an exception.
Ordered ==
  /\ Len(verdicts) <= responses /\ responses <= Len(verdicts) + 1
  /\ trial <= Len(verdicts) /\ Len(verdicts) <= trial + 1
  /\ responses <= num_trials
  /\ pagesFinished <= pagesBegun /\ pagesBegun <= 1
  /\ (pc # "idle") => pagesBegun = 1
  /\ (success_rate # -1)
       => (trial = num_trials /\ Len(verdicts) = num_trials /\ responses = num_trials)
  /\ (pagesFinished = 1) => (success_rate # -1 /\ pc = "done")
  /\ (pc = "done") => (pagesFinished = 1 /\ raised = "" /\ returned # <<>>)
  /\ (raised # "")
       => (pc = "failed" /\ pagesFinished = 0 /\ success_rate = -1 /\ returned = <<>>)

\* C13: test_fast_learner keeps that order in every step, and once an exception has
\* left it no trial, report or finish_page follows.
C13_Order == Ordered /\ [][Ordered' /\ (raised # "" => UNCHANGED tfl)]_vars

\* C13 witness: an exception left the call after a graded trial, with trials to go.
C13_Witness ==
  /\ pc = "failed" /\ raised = "Exception"
  /\ Len(verdicts) >= 1 /\ trial < num_trials
  /\ pagesBegun = 1 /\ pagesFinished = 0

====
